---- MODULE Spec2Model ----
(***************************************************************************)
(* Model of src/app.py: the cardiovascular risk agent.                     *)
(*                                                                         *)
(* Two process-wide resources (model, scaler) are loaded by                *)
(* load_resources() at import time; POST /api/evaluate is served by        *)
(* evaluate_risk(), which derives the feature vector, asks the opaque      *)
(* model for a raw probability, applies four rule functions and answers    *)
(* with a report or with one error body.                                   *)
(*                                                                         *)
(* Numbers: clinical measurements are modelled as integers (every          *)
(* threshold of the rules is an integer, so a float between two integers   *)
(* falls in the band of its floor).  The raw model probability is a        *)
(* fixed-point number in ten-thousandths: 6999 stands for 0.6999, 7000     *)
(* for 0.70, 10000 for 1.0.  Binary floating-point rounding of raw*100 is  *)
(* not modelled.                                                           *)
(***************************************************************************)
EXTENDS Integers, Sequences, FiniteSets, TLC

VARIABLES
    phase,              \* "boot" | "idle" | "pending" | "responded" | "crashed"
    model,              \* global model (line 11): "None" or the loaded object
    scaler,             \* global scaler (line 12): "None" or the loaded object
    model_loads,        \* times line 30 assigned model
    scaler_loads,       \* times line 34 assigned scaler
    load_calls,         \* times load_resources() was entered
    request,            \* request.json of the request being served
    prob_coronaria_raw, \* model.predict(...)[0][0] of this request, -1 if not run
    response,           \* (body, status) returned by evaluate_risk
    call                \* last direct call of a rule function (unit harness)

vars == <<phase, model, scaler, model_loads, scaler_loads, load_calls,
          request, prob_coronaria_raw, response, call>>

svcVars == <<phase, model, scaler, model_loads, scaler_loads, load_calls,
             request, prob_coronaria_raw, response>>

----------------------------------------------------------------------------
(* Bounds of the model *)

\* Largest number of required fields a modelled payload leaves out.
MaxAbsent == 1

\* Calls of load_resources() explored in SpecLoad (the first is line 36).
MaxLoadCalls == 3

\* Range of systolic / diastolic pressures of the direct rule calls.
SysLo == 117
SysHi == 142
DiaLo == 77
DiaHi == 92

----------------------------------------------------------------------------
(* JSON values of the payload.  One record shape for every value, so that  *)
(* values of different JSON types can be compared.                         *)

Num(n) == [t |-> "num", n |-> n, s |-> ""]
Str(s) == [t |-> "str", n |-> 0, s |-> s]
Bool(b) == [t |-> "bool", n |-> IF b THEN 1 ELSE 0, s |-> ""]
Null == [t |-> "null", n |-> 0, s |-> ""]

\* Python truthiness of a JSON value (`if fumador:`, `1.0 if data['fumador']`).
Truthy(v) ==
    CASE v.t = "bool" -> v.n = 1
      [] v.t = "num"  -> v.n # 0
      [] v.t = "str"  -> v.s # ""
      [] OTHER        -> FALSE

\* The strings of the modelled payloads that Python's float() parses.
StrToFloat == ("170" :> 170) @@ ("0" :> 0)

NoExc == [type |-> "None", arg |-> ""]
Exc(type, arg) == [type |-> type, arg |-> arg]

\* float(v): a number or a bool converts, a string is parsed (ValueError when
\* it is no number), None is a TypeError.
float(v) ==
    CASE v.t = "num"  -> [exc |-> NoExc, val |-> v.n]
      [] v.t = "bool" -> [exc |-> NoExc, val |-> v.n]
      [] v.t = "str"  ->
            IF v.s \in DOMAIN StrToFloat
            THEN [exc |-> NoExc, val |-> StrToFloat[v.s]]
            ELSE [exc |-> Exc("ValueError", v.s), val |-> 0]
      [] OTHER        -> [exc |-> Exc("TypeError", "NoneType"), val |-> 0]

----------------------------------------------------------------------------
(* Rule functions *)

Risk(p, n) == [probabilidad |-> p, nivel |-> n]

\* Variant with a fault: the 120-129 band scores above the 130-139 band.
calcular_hipertension_swapped(sys_bp, dia_bp) ==
    IF sys_bp >= 140 \/ dia_bp >= 90 THEN Risk(92, "Alto")
    ELSE IF sys_bp >= 130 \/ dia_bp >= 80 THEN Risk(45, "Moderado")
    ELSE IF sys_bp >= 120 /\ dia_bp < 80 THEN Risk(75, "Moderado")
    ELSE Risk(10, "Bajo")

calcular_hipertension(sys_bp, dia_bp) ==
    IF sys_bp >= 140 \/ dia_bp >= 90 THEN Risk(92, "Alto")
    ELSE IF sys_bp >= 130 \/ dia_bp >= 80 THEN Risk(75, "Moderado")
    ELSE IF sys_bp >= 120 /\ dia_bp < 80 THEN Risk(45, "Moderado")
    ELSE Risk(10, "Bajo")

calcular_diabetes(glucosa) ==
    IF glucosa >= 126 THEN Risk(95, "Alto")
    ELSE IF glucosa >= 100 THEN Risk(45, "Moderado")
    ELSE Risk(10, "Bajo")

\* Variant with a fault: the first triggered sub-check wins.
MaxByProbabilidad_first(riesgos) == riesgos[1]

\* max(riesgos, key=...): the first element whose key no element exceeds.
MaxByProbabilidad(riesgos) ==
    LET i == CHOOSE k \in 1..Len(riesgos) :
                /\ \A j \in 1..Len(riesgos) :
                      riesgos[j].probabilidad <= riesgos[k].probabilidad
                /\ \A j \in 1..(k - 1) :
                      riesgos[j].probabilidad < riesgos[k].probabilidad
    IN riesgos[i]

\* The three sub-checks, appended in source order.
Riesgos(ldl, hdl, total) ==
    (IF ldl >= 160 THEN <<Risk(85, "Alto")>>
     ELSE IF ldl >= 130 THEN <<Risk(60, "Moderado")>>
     ELSE <<>>)
    \o (IF hdl < 40 THEN <<Risk(90, "Alto")>> ELSE <<>>)
    \o (IF total >= 240 THEN <<Risk(80, "Alto")>>
        ELSE IF total >= 200 THEN <<Risk(50, "Moderado")>>
        ELSE <<>>)

calcular_dislipidemia(ldl, hdl, total) ==
    LET riesgos == Riesgos(ldl, hdl, total)
    IN IF riesgos = <<>> THEN Risk(10, "Bajo")
       ELSE MaxByProbabilidad(riesgos)

puntos_riesgo(fumador, actividad, alcohol) ==
    (IF Truthy(fumador) THEN 1 ELSE 0)
    + (IF actividad = Str("Sedentario") THEN 1 ELSE 0)
    + (IF alcohol \in {Str("Moderado"), Str("Alto")} THEN 1 ELSE 0)

\* Variant with a fault: the one-point score is given the level its probability has in
\* the other rules.
calcular_riesgo_estilo_vida_harmonised(fumador, actividad, alcohol) ==
    LET p == puntos_riesgo(fumador, actividad, alcohol)
    IN IF p = 3 THEN Risk(90, "Alto")
       ELSE IF p = 2 THEN Risk(60, "Moderado")
       ELSE IF p = 1 THEN Risk(30, "Moderado")
       ELSE Risk(10, "Bajo")

calcular_riesgo_estilo_vida(fumador, actividad, alcohol) ==
    LET p == puntos_riesgo(fumador, actividad, alcohol)
    IN IF p = 3 THEN Risk(90, "Alto")
       ELSE IF p = 2 THEN Risk(60, "Moderado")
       ELSE IF p = 1 THEN Risk(30, "Bajo")
       ELSE Risk(10, "Bajo")

\* Variant with a fault: the High threshold is set at 0.60.
nivel_riesgo_coronario_low_threshold(prob_raw) ==
    IF prob_raw >= 6000 THEN "Alto"
    ELSE IF prob_raw >= 3000 THEN "Moderado"
    ELSE "Bajo"

\* prob_raw in ten-thousandths: 0.70 is 7000, 0.30 is 3000.
nivel_riesgo_coronario(prob_raw) ==
    IF prob_raw >= 7000 THEN "Alto"
    ELSE IF prob_raw >= 3000 THEN "Moderado"
    ELSE "Bajo"

\* Variant with a fault: rounds to the nearest percent.
prob_coronaria_pct_rounded(prob_raw) == (prob_raw * 100 + 5000) \div 10000

\* int(prob_coronaria_raw * 100): truncation.
prob_coronaria_pct(prob_raw) == (prob_raw * 100) \div 10000

----------------------------------------------------------------------------
(* evaluate_risk *)

Fields == {"altura_cm", "peso_kg", "edad", "sexo", "presion_sistolica",
           "presion_diastolica", "colesterol_total", "glucosa", "fumador",
           "colesterol_ldl", "colesterol_hdl", "actividad_fisica",
           "consumo_alcohol"}

\* The reads and computations of the try block that can raise, in the order
\* Python evaluates them.  "float" is float(data[campo]), "get" is
\* data[campo], "bmi" is line 146, "predict" is lines 160-165.
Step(campo, op) == [campo |-> campo, op |-> op]

ReadSteps ==
    << Step("altura_cm", "float"),          \* line 144
       Step("peso_kg", "float"),            \* line 145
       Step("", "bmi"),                     \* line 146
       Step("edad", "float"),               \* line 149
       Step("sexo", "get"),                 \* line 150
       Step("presion_sistolica", "float"),  \* line 151
       Step("presion_diastolica", "float"), \* line 152
       Step("colesterol_total", "float"),   \* line 153
       Step("glucosa", "float"),            \* line 154
       Step("fumador", "get"),              \* line 156
       Step("", "predict"),                 \* lines 160-165
       Step("presion_sistolica", "float"),  \* line 169
       Step("presion_diastolica", "float"), \* line 170
       Step("glucosa", "float"),            \* line 175
       Step("colesterol_ldl", "float"),     \* line 180
       Step("colesterol_hdl", "float"),     \* line 181
       Step("colesterol_total", "float"),   \* line 182
       Step("fumador", "get"),              \* line 187
       Step("actividad_fisica", "get"),     \* line 188
       Step("consumo_alcohol", "get") >>    \* line 189

\* Variant with a fault: a zero height is not noticed (bmi is not computed).
StepExc_no_zero_division(data, step) ==
    CASE step.op = "get" ->
            IF step.campo \in DOMAIN data THEN NoExc
            ELSE Exc("KeyError", step.campo)
      [] step.op = "float" ->
            IF step.campo \in DOMAIN data THEN float(data[step.campo]).exc
            ELSE Exc("KeyError", step.campo)
      [] OTHER -> NoExc

\* The exception one step raises, NoExc when it raises none.  The bmi step
\* runs only after both conversions of lines 144-145 succeeded; altura_m ** 2
\* is 0.0 exactly when the height is 0.  The inference step raises nothing on
\* the finite numbers of the modelled payloads.
StepExc(data, step) ==
    CASE step.op = "get" ->
            IF step.campo \in DOMAIN data THEN NoExc
            ELSE Exc("KeyError", step.campo)
      [] step.op = "float" ->
            IF step.campo \in DOMAIN data THEN float(data[step.campo]).exc
            ELSE Exc("KeyError", step.campo)
      [] step.op = "bmi" ->
            IF float(data["altura_cm"]).val = 0
            THEN Exc("ZeroDivisionError", "float division by zero")
            ELSE NoExc
      [] OTHER -> NoExc

\* The first exception raised from step i on.
RECURSIVE FirstExcFrom(_, _)
FirstExcFrom(data, i) ==
    IF i > Len(ReadSteps) THEN NoExc
    ELSE LET e == StepExc(data, ReadSteps[i])
         IN IF e.type # "None" THEN e ELSE FirstExcFrom(data, i + 1)

FirstExc(data) == FirstExcFrom(data, 1)

\* Whether the try block got as far as model.predict.
RECURSIVE PredictReachedFrom(_, _)
PredictReachedFrom(data, i) ==
    IF i > Len(ReadSteps) THEN FALSE
    ELSE IF ReadSteps[i].op = "predict" THEN TRUE
    ELSE StepExc(data, ReadSteps[i]).type = "None"
         /\ PredictReachedFrom(data, i + 1)

PredictReached(data) == PredictReachedFrom(data, 1)

\* max(probabilidades) of a non-empty list.
Max(probabilidades) ==
    CHOOSE m \in {probabilidades[i] : i \in 1..Len(probabilidades)} :
        \A i \in 1..Len(probabilidades) : probabilidades[i] <= m

\* Variant with a fault: the model's percentage is left out of the maximum.
riesgo_general_pct_rules_only(probabilidades) ==
    Max(SubSeq(probabilidades, 2, Len(probabilidades)))

\* line 203
riesgo_general_pct(probabilidades) == Max(probabilidades)

Entry(enfermedad, probabilidad, nivel) ==
    [enfermedad |-> enfermedad, probabilidad |-> probabilidad, nivel |-> nivel]

\* response_json of lines 163-236, for a payload on which nothing raises.
response_json(data, prob_raw) ==
    LET pct == prob_coronaria_pct(prob_raw)
        hip == calcular_hipertension(float(data["presion_sistolica"]).val,
                                     float(data["presion_diastolica"]).val)
        dia == calcular_diabetes(float(data["glucosa"]).val)
        dis == calcular_dislipidemia(float(data["colesterol_ldl"]).val,
                                     float(data["colesterol_hdl"]).val,
                                     float(data["colesterol_total"]).val)
        est == calcular_riesgo_estilo_vida(data["fumador"],
                                           data["actividad_fisica"],
                                           data["consumo_alcohol"])
        probabilidades == << pct, hip.probabilidad, dia.probabilidad,
                             dis.probabilidad, est.probabilidad >>
    IN [ riesgo_general |-> riesgo_general_pct(probabilidades),
         modelo_version |-> "1.2-hibrido-avanzado",
         probabilidades_enfermedades |->
           << Entry("Coronary Artery Disease", pct,
                    nivel_riesgo_coronario(prob_raw)),
              Entry("Hypertension", hip.probabilidad, hip.nivel),
              Entry("Type 2 Diabetes", dia.probabilidad, dia.nivel),
              Entry("Dislipidemia (Colesterol)", dis.probabilidad, dis.nivel),
              Entry("Riesgo por Estilo de Vida", est.probabilidad,
                    est.nivel) >> ]

ErrorBody(mensaje, detalle) ==
    [error |-> [mensaje |-> mensaje, detalle |-> detalle]]

Response(status, body) == [status |-> status, body |-> body]

\* `not model` / `not scaler` of line 136.
Not(recurso) == recurso \in {"None", "Falsy"}

\* Variant with a fault: the resources are tested after the payload is read.
evaluate_risk_guard_late(m, sc, data, prob_raw) ==
    LET e == FirstExc(data)
    IN IF e.type = "KeyError"
       THEN Response(400, ErrorBody("Falta el campo en los datos: ", e.arg))
       ELSE IF Not(m) \/ Not(sc)
       THEN Response(500, ErrorBody("El modelo de IA no esta disponible.", ""))
       ELSE IF e.type # "None"
       THEN Response(500, ErrorBody("Error interno del agente: ", e.arg))
       ELSE Response(200, response_json(data, prob_raw))

\* The whole handler: what it returns for the globals m and sc, the payload
\* data and the probability prob_raw the model would give.
evaluate_risk(m, sc, data, prob_raw) ==
    IF Not(m) \/ Not(sc)
    THEN Response(500, ErrorBody("El modelo de IA no esta disponible.", ""))
    ELSE LET e == FirstExc(data)
         IN IF e.type = "KeyError"
            THEN Response(400,
                          ErrorBody("Falta el campo en los datos: ", e.arg))
            ELSE IF e.type # "None"
            THEN Response(500,
                          ErrorBody("Error interno del agente: ", e.arg))
            ELSE Response(200, response_json(data, prob_raw))

----------------------------------------------------------------------------
(* Payloads *)

AlturaVals == {Num(170), Str("170"), Num(0), Str("abc")}
PesoVals == {Num(70)}
EdadVals == {Num(50)}
SexoVals == {Str("Masculino")}
SistolicaVals == {Num(118), Num(125), Num(135), Num(145)}
DiastolicaVals == {Num(75)}
ColesterolTotalVals == {Num(180), Num(250)}
GlucosaVals == {Num(90), Num(110), Num(130), Null}
FumadorVals == {Bool(TRUE), Bool(FALSE)}
LdlVals == {Num(100), Num(170)}
HdlVals == {Num(35), Num(50)}
ActividadVals == {Str("Sedentario"), Str("Activo")}
AlcoholVals == {Str("Ninguno"), Str("Moderado"), Str("Alto")}

\* Payloads that carry every required field.
FullPayloads ==
    { [ altura_cm |-> a, peso_kg |-> p, edad |-> e, sexo |-> s,
        presion_sistolica |-> ps, presion_diastolica |-> pd,
        colesterol_total |-> ct, glucosa |-> g, fumador |-> f,
        colesterol_ldl |-> l, colesterol_hdl |-> h,
        actividad_fisica |-> af, consumo_alcohol |-> ca ] :
      a \in AlturaVals, p \in PesoVals, e \in EdadVals, s \in SexoVals,
      ps \in SistolicaVals, pd \in DiastolicaVals,
      ct \in ColesterolTotalVals, g \in GlucosaVals, f \in FumadorVals,
      l \in LdlVals, h \in HdlVals, af \in ActividadVals,
      ca \in AlcoholVals }

AbsentSets == {A \in SUBSET Fields : Cardinality(A) <= MaxAbsent}

Without(full, A) == [campo \in Fields \ A |-> full[campo]]

\* The end-to-end example: every rule at its highest band.
ExamplePayload ==
    [ altura_cm |-> Num(170), peso_kg |-> Num(70), edad |-> Num(50),
      sexo |-> Str("Masculino"), presion_sistolica |-> Num(145),
      presion_diastolica |-> Num(95), colesterol_total |-> Num(250),
      glucosa |-> Num(130), fumador |-> Bool(TRUE),
      colesterol_ldl |-> Num(170), colesterol_hdl |-> Num(35),
      actividad_fisica |-> Str("Sedentario"),
      consumo_alcohol |-> Str("Moderado") ]

\* The fields evaluate_risk converts with float().
NumericFields == {"altura_cm", "peso_kg", "edad", "presion_sistolica",
                  "presion_diastolica", "colesterol_total", "glucosa",
                  "colesterol_ldl", "colesterol_hdl"}

\* The example with one numeric field holding a value that is no number.
BadNumberPayloads ==
    { [ExamplePayload EXCEPT ![campo] = bad] :
        campo \in NumericFields, bad \in {Str("abc"), Null} }

\* The few payloads of the resource-loading specification.
FewFullPayloads ==
    { ExamplePayload,
      [ExamplePayload EXCEPT !.altura_cm = Num(0)],
      [ExamplePayload EXCEPT !.glucosa = Str("abc")] }

FewAbsentSets == {{}, {"edad"}, {"consumo_alcohol"}, Fields}

\* Probabilities the opaque model may return, in ten-thousandths.
RawVals == {0, 50, 2999, 3000, 6950, 6999, 7000, 9999, 10000}

----------------------------------------------------------------------------
(* The service *)

NoData == [campo \in {} |-> Null]
NoResponse == Response(0, ErrorBody("", ""))
NoCall == [fn |-> "", args |-> <<>>, ret |-> Risk(0, "")]

Init ==
    /\ phase = "boot"
    /\ model = "None"
    /\ scaler = "None"
    /\ model_loads = 0
    /\ scaler_loads = 0
    /\ load_calls = 0
    /\ request = NoData
    /\ prob_coronaria_raw = -1
    /\ response = NoResponse
    /\ call = NoCall

\* What tf.keras.models.load_model gives: a model object, or it raises.
LoadModelOutcomes == {"Model", "raise"}

\* What joblib.load gives: the unpickled object of the artifact, which is
\* the scaler or an object that tests false, or it raises.
JoblibLoadOutcomes == {"Scaler", "Falsy", "raise"}

\* Variant with a fault: no `is None` tests, every call loads again.
load_resources_unguarded ==
    /\ load_calls' = load_calls + 1
    /\ \E m_out \in LoadModelOutcomes :
         IF m_out = "raise"
         THEN /\ phase' = "crashed"
              /\ UNCHANGED <<model, model_loads, scaler, scaler_loads>>
         ELSE /\ model' = m_out
              /\ model_loads' = model_loads + 1
              /\ \E s_out \in JoblibLoadOutcomes :
                   IF s_out = "raise"
                   THEN /\ phase' = "crashed"
                        /\ UNCHANGED <<scaler, scaler_loads>>
                   ELSE /\ scaler' = s_out
                        /\ scaler_loads' = scaler_loads + 1
                        /\ phase' = "idle"

\* load_resources(): loads what is still None.  An exception of a loader is
\* not caught: it leaves the global as it was and ends the process.
load_resources ==
    /\ load_calls' = load_calls + 1
    /\ \E m_out \in (IF model = "None" THEN LoadModelOutcomes ELSE {"skip"}) :
         IF m_out = "raise"
         THEN /\ phase' = "crashed"
              /\ UNCHANGED <<model, model_loads, scaler, scaler_loads>>
         ELSE /\ model' = (IF m_out = "skip" THEN model ELSE m_out)
              /\ model_loads' = model_loads + (IF m_out = "skip" THEN 0 ELSE 1)
              /\ \E s_out \in (IF scaler = "None" THEN JoblibLoadOutcomes
                               ELSE {"skip"}) :
                   IF s_out = "raise"
                   THEN /\ phase' = "crashed"
                        /\ UNCHANGED <<scaler, scaler_loads>>
                   ELSE /\ scaler' = (IF s_out = "skip" THEN scaler ELSE s_out)
                        /\ scaler_loads' =
                             scaler_loads + (IF s_out = "skip" THEN 0 ELSE 1)
                        /\ phase' = "idle"

\* Line 36: the call at import time.
Boot ==
    /\ phase = "boot"
    /\ load_resources
    /\ UNCHANGED <<request, prob_coronaria_raw, response, call>>

\* A further call of load_resources() between two requests.
Reload ==
    /\ phase = "idle"
    /\ load_calls < MaxLoadCalls
    /\ load_resources
    /\ UNCHANGED <<request, prob_coronaria_raw, response, call>>

\* A POST /api/evaluate arrives; its body is one of fulls with the fields of
\* one of absents left out.
PostRequest(fulls, absents) ==
    /\ phase = "idle"
    /\ \E full \in fulls, A \in absents : request' = Without(full, A)
    /\ phase' = "pending"
    /\ UNCHANGED <<model, scaler, model_loads, scaler_loads, load_calls,
                   prob_coronaria_raw, response, call>>

\* evaluate_risk() runs on the request.
EvaluateRisk ==
    /\ phase = "pending"
    /\ \E prob_raw \in RawVals :
         /\ response' = evaluate_risk(model, scaler, request, prob_raw)
         /\ prob_coronaria_raw' =
              (IF ~(Not(model) \/ Not(scaler)) /\ PredictReached(request)
               THEN prob_raw ELSE -1)
    /\ phase' = "responded"
    /\ UNCHANGED <<model, scaler, model_loads, scaler_loads, load_calls,
                   request, call>>

\* The transport sends the response; the request is over.
SendResponse ==
    /\ phase = "responded"
    /\ phase' = "idle"
    /\ request' = NoData
    /\ prob_coronaria_raw' = -1
    /\ response' = NoResponse
    /\ UNCHANGED <<model, scaler, model_loads, scaler_loads, load_calls, call>>

Next ==
    \/ Boot
    \/ PostRequest(FullPayloads \cup BadNumberPayloads, AbsentSets)
    \/ EvaluateRisk
    \/ SendResponse

Spec == Init /\ [][Next]_vars

\* The same service under repeated calls of load_resources().
NextLoad ==
    \/ Boot
    \/ Reload
    \/ PostRequest(FewFullPayloads, FewAbsentSets)
    \/ EvaluateRisk
    \/ SendResponse

SpecLoad == Init /\ [][NextLoad]_vars

----------------------------------------------------------------------------
(* Direct calls of the rule functions *)

GlucosaGrid == {99, 100, 125, 126}
LdlGrid == {100, 129, 130, 159, 160, 200}
HdlGrid == {20, 39, 40, 60}
TotalGrid == {150, 199, 200, 239, 240, 300}
ActividadGrid == {Str("Sedentario"), Str("Activo"), Str("sedentario"),
                  Str("Moderado")}
AlcoholGrid == {Str("Ninguno"), Str("Moderado"), Str("Alto"), Str("alto"),
                Str("Sedentario")}

Call(fn, args, ret) == [fn |-> fn, args |-> args, ret |-> ret]

CallHipertension ==
    /\ \E sys_bp \in SysLo..SysHi, dia_bp \in DiaLo..DiaHi :
         call' = Call("calcular_hipertension", <<sys_bp, dia_bp>>,
                      calcular_hipertension(sys_bp, dia_bp))
    /\ UNCHANGED svcVars

CallDiabetes ==
    /\ \E glucosa \in GlucosaGrid :
         call' = Call("calcular_diabetes", <<glucosa>>,
                      calcular_diabetes(glucosa))
    /\ UNCHANGED svcVars

CallDislipidemia ==
    /\ \E ldl \in LdlGrid, hdl \in HdlGrid, total \in TotalGrid :
         call' = Call("calcular_dislipidemia", <<ldl, hdl, total>>,
                      calcular_dislipidemia(ldl, hdl, total))
    /\ UNCHANGED svcVars

CallEstiloVida ==
    /\ \E fumador \in FumadorVals, actividad \in ActividadGrid,
          alcohol \in AlcoholGrid :
         call' = Call("calcular_riesgo_estilo_vida",
                      <<fumador, actividad, alcohol>>,
                      calcular_riesgo_estilo_vida(fumador, actividad, alcohol))
    /\ UNCHANGED svcVars

NextRules ==
    \/ CallHipertension
    \/ CallDiabetes
    \/ CallDislipidemia
    \/ CallEstiloVida

SpecRules == Init /\ [][NextRules]_vars

----------------------------------------------------------------------------
(* Properties *)

Loaded == ~Not(model) /\ ~Not(scaler)
Responded == phase = "responded"
Absent == Fields \ DOMAIN request

\* The response is a report: status 200 and the three report fields.
IsReport(r) ==
    /\ r.status = 200
    /\ DOMAIN r.body =
         {"riesgo_general", "modelo_version", "probabilidades_enfermedades"}

\* The response is one error body and carries no report field.
IsError(r) ==
    /\ r.status \in {400, 500}
    /\ DOMAIN r.body = {"error"}

Entries == response.body.probabilidades_enfermedades
Reported == Responded /\ response.status = 200

\* C1: in every report, riesgo_general is the maximum of the five listed
\* probabilities: it equals one of them and none of them exceeds it.
C1_RiesgoGeneralIsMax ==
    Reported =>
      /\ Len(Entries) = 5
      /\ \E i \in 1..5 : response.body.riesgo_general = Entries[i].probabilidad
      /\ \A i \in 1..5 : Entries[i].probabilidad <= response.body.riesgo_general

\* A report whose coronary percentage alone is the maximum.
C1_Witness ==
    /\ Reported
    /\ response.body.riesgo_general = Entries[1].probabilidad
    /\ \A i \in 2..5 : Entries[i].probabilidad < Entries[1].probabilidad

\* C2: with model and scaler loaded, every payload that lacks a required
\* field is answered with the missing-field error (400) naming an absent
\* field, and with no report, whatever the fields that are present hold.
C2_MissingFieldIs400 ==
    (Responded /\ Loaded /\ Absent # {}) =>
      /\ response.status = 400
      /\ IsError(response)
      /\ response.body.error.mensaje = "Falta el campo en los datos: "
      /\ response.body.error.detalle \in Absent

\* C3: when the model or the scaler is not available, every request gets
\* the resource-unavailable error (500), the same for every payload, and no
\* inference has run.
C3_UnavailableIs500 ==
    (Responded /\ ~Loaded) =>
      /\ response =
           Response(500, ErrorBody("El modelo de IA no esta disponible.", ""))
      /\ prob_coronaria_raw = -1

\* A request that lacks a field, answered 500 because the scaler is not
\* available.
C3_Witness ==
    /\ Responded
    /\ ~Loaded
    /\ Absent # {}
    /\ response.status = 500

\* The payload carries every field and has a zero height or a value that
\* is no number in a numeric field.
BadNumbers ==
    /\ Absent = {}
    /\ \/ \E campo \in NumericFields : request[campo].t \in {"str", "null"}
                                       /\ request[campo].s \notin DOMAIN StrToFloat
       \/ request["altura_cm"] \in {Num(0), Str("0")}

ConditionNames ==
    << "Coronary Artery Disease", "Hypertension", "Type 2 Diabetes",
       "Dislipidemia (Colesterol)", "Riesgo por Estilo de Vida" >>

\* C4: every request ends in one outcome, a complete report (five entries
\* in the fixed order) or one error body without report fields; a complete
\* payload with a zero height or a non-numeric number ends in the internal
\* error (500).
C4_OneOutcome ==
    Responded =>
      /\ IsReport(response) # IsError(response)
      /\ IsReport(response) =>
           /\ Len(Entries) = 5
           /\ \A i \in 1..5 : Entries[i].enfermedad = ConditionNames[i]
           /\ response.body.modelo_version = "1.2-hibrido-avanzado"
      /\ (Loaded /\ BadNumbers) =>
           /\ response.status = 500
           /\ IsError(response)
           /\ response.body.error.mensaje = "Error interno del agente: "

\* A complete payload with height 0, answered with the internal error.
C4_Witness ==
    /\ Responded
    /\ Loaded
    /\ Absent = {}
    /\ request["altura_cm"] = Num(0)
    /\ response.status = 500

\* C5: each resource is assigned at most once; a resource that is present
\* is never loaded again nor replaced, and evaluate_risk leaves both as
\* they are.
C5_LoadOnce ==
    /\ [](model_loads <= 1 /\ scaler_loads <= 1)
    /\ [][ /\ model # "None" =>
                (model' = model /\ model_loads' = model_loads)
           /\ scaler # "None" =>
                (scaler' = scaler /\ scaler_loads' = scaler_loads)
           /\ phase = "pending" =>
                UNCHANGED <<model, scaler, model_loads, scaler_loads>> ]_vars

\* A request answered after load_resources() was called again with both
\* resources present.
C5_Witness ==
    /\ Responded
    /\ load_calls >= 2
    /\ model_loads = 1
    /\ scaler_loads = 1
    /\ response.status = 200

\* C6: calcular_hipertension is monotonic: of two calls, the one with the
\* pressures that are both at least as high returns at least the
\* probability of the other.
C6_HipertensionMonotonic ==
    [][ ( /\ call.fn = "calcular_hipertension"
          /\ call'.fn = "calcular_hipertension"
          /\ call.args[1] <= call'.args[1]
          /\ call.args[2] <= call'.args[2] )
        => call.ret.probabilidad <= call'.ret.probabilidad ]_vars

\* A call in the band systolic 120-129, diastolic below 80.
C6_Witness ==
    /\ call.fn = "calcular_hipertension"
    /\ call.args[1] >= 120
    /\ call.args[1] < 130
    /\ call.args[2] < 80
    /\ call.ret = Risk(45, "Moderado")

\* The sub-checks that trigger for (ldl, hdl, total), as a set.
Triggered(ldl, hdl, total) ==
    { c \in { [on |-> ldl >= 160, r |-> Risk(85, "Alto")],
              [on |-> ldl >= 130 /\ ldl < 160, r |-> Risk(60, "Moderado")],
              [on |-> hdl < 40, r |-> Risk(90, "Alto")],
              [on |-> total >= 240, r |-> Risk(80, "Alto")],
              [on |-> total >= 200 /\ total < 240,
               r |-> Risk(50, "Moderado")] } : c.on }

\* C7: calcular_dislipidemia returns the triggered candidate of highest
\* probability, with that candidate's level; it returns (10, Bajo) exactly
\* when nothing triggers; the probability is one of 10, 50, 60, 80, 85, 90.
C7_DislipidemiaWorst ==
    call.fn = "calcular_dislipidemia" =>
      LET cands == { c.r : c \in Triggered(call.args[1], call.args[2],
                                            call.args[3]) }
      IN /\ cands # {} =>
              /\ call.ret \in cands
              /\ \A c \in cands : c.probabilidad <= call.ret.probabilidad
         /\ (call.ret = Risk(10, "Bajo")) <=> (cands = {})
         /\ call.ret.probabilidad \in {10, 50, 60, 80, 85, 90}

\* A call where the LDL and the HDL checks both trigger and HDL wins.
C7_Witness ==
    /\ call.fn = "calcular_dislipidemia"
    /\ call.args[1] >= 160
    /\ call.args[2] < 40
    /\ call.ret = Risk(90, "Alto")

\* The table from point totals to results.
EstiloVidaTable ==
    << Risk(10, "Bajo"), Risk(30, "Bajo"), Risk(60, "Moderado"),
       Risk(90, "Alto") >>

\* Points of a call: smoker true, activity Sedentario, alcohol Moderado or
\* Alto.
Points(args) ==
    Cardinality({ k \in 1..3 :
        \/ k = 1 /\ args[1] = Bool(TRUE)
        \/ k = 2 /\ args[2].s = "Sedentario"
        \/ k = 3 /\ args[3].s \in {"Moderado", "Alto"} })

\* C8: calcular_riesgo_estilo_vida is the table lookup on the point total:
\* 0, 1, 2, 3 points give 10 Bajo, 30 Bajo, 60 Moderado, 90 Alto.
C8_EstiloVidaTable ==
    call.fn = "calcular_riesgo_estilo_vida" =>
      call.ret = EstiloVidaTable[Points(call.args) + 1]

\* A call with one point, from an alcohol category only.
C8_Witness ==
    /\ call.fn = "calcular_riesgo_estilo_vida"
    /\ call.args[1] = Bool(FALSE)
    /\ call.args[2] = Str("sedentario")
    /\ call.args[3] = Str("Moderado")
    /\ call.ret = Risk(30, "Bajo")

\* C9: the coronary percentage is raw*100 truncated, and the level is
\* decided on raw: Alto from 0.70, Moderado from 0.30, else Bajo; 0.6999
\* gives 69 Moderado and 0.70 gives 70 Alto.
C9_CoronaryTruncates ==
    Reported =>
      LET raw == prob_coronaria_raw
          e == Entries[1]
      IN /\ raw \in 0..10000
         /\ e.probabilidad * 10000 <= raw * 100
         /\ raw * 100 < (e.probabilidad + 1) * 10000
         /\ e.nivel = "Alto" <=> raw >= 7000
         /\ e.nivel = "Moderado" <=> (raw >= 3000 /\ raw < 7000)
         /\ e.nivel = "Bajo" <=> raw < 3000
         /\ raw = 6999 => (e.probabilidad = 69 /\ e.nivel = "Moderado")
         /\ raw = 7000 => (e.probabilidad = 70 /\ e.nivel = "Alto")

\* A report for raw = 0.6999.
C9_Witness ==
    /\ Reported
    /\ prob_coronaria_raw = 6999
    /\ Entries[1].probabilidad = 69
    /\ Entries[1].nivel = "Moderado"

\* C10: in every report, an Alto entry has probability at least 70, a Bajo
\* entry at most 30, every probability is in 0..100, riesgo_general is in
\* 10..100 and is at least 70 when some entry is Alto.
C10_LevelsConsistent ==
    Reported =>
      /\ \A i \in 1..Len(Entries) :
           /\ Entries[i].probabilidad \in 0..100
           /\ Entries[i].nivel = "Alto" => Entries[i].probabilidad >= 70
           /\ Entries[i].nivel = "Bajo" => Entries[i].probabilidad <= 30
      /\ response.body.riesgo_general \in 10..100
      /\ (\E i \in 1..Len(Entries) : Entries[i].nivel = "Alto")
           => response.body.riesgo_general >= 70

\* A report with a Bajo entry at 30, an Alto coronary entry at exactly 70
\* and no other Alto entry.
C10_Witness ==
    /\ Reported
    /\ Entries[5] = Entry("Riesgo por Estilo de Vida", 30, "Bajo")
    /\ Entries[1].nivel = "Alto"
    /\ Entries[1].probabilidad = 70
    /\ \A i \in 2..5 : Entries[i].nivel # "Alto"

====
